---- MODULE Spec2Model ----
(***************************************************************************)
(* Model of the distributed frame dispatcher of src/src/tools.py:          *)
(* slice_list, split_frames_per_host, the render command builders, the     *)
(* remote sync guard (get_file_mod_date / remote_blender) and              *)
(* BlenderRender._run, together with the external processes it spawns.     *)
(***************************************************************************)
EXTENDS Integers, Sequences, FiniteSets, TLC

\* ------------------------------------------------------------------ bounds

\* longest host list and largest num_frames drawn for the dispatcher (Spec)
MaxRunHosts == 2
MaxRunFrames == 2
\* longest host list, largest num_frames and largest stride drawn for the
\* partitioner alone (SplitSpec)
MaxHosts == 3
MaxFrames == 7
MaxJump == 2

\* ------------------------------------------------------- values of the model

Hosts == {"localhost", "w1", "w2"}
BlendFile == "scene.blend"
OutputDir == "out"

\* Python's None
None == "None"

\* how an external process can exit: exit status 0, or non-zero
Outcomes == {"ok", "failed"}

\* what `stat file` can print on stdout: a line "Modify: <date> <time>.<frac> <tz>"
\* or nothing of that shape (a missing file, a failed ssh, another stat dialect)
Dates == {"2020-01-01 10:00:00", "2020-01-01 10:00:01"}
Fracs == {"000000000", "500000000"}
NoModifyLine == [modify |-> None, frac |-> None]
StatOutputs == [modify : Dates, frac : Fracs] \cup {NoModifyLine}

\* all sequences over S of length 0..n
SeqsUpTo(S, n) == UNION {[1..k -> S] : k \in 0..n}

\* ---------------------------------------------------------- pure functions

\* Python's range(start, stop, step) for step >= 1, as a sequence
range(start, stop, step) ==
    LET n == IF stop > start THEN (stop - start + step - 1) \div step ELSE 0
    IN  [k \in 1..n |-> start + (k - 1) * step]

\* the loop `for i in range(size)` of slice_list: `pos` is the position of the
\* iterator in `input`, `remain` the extra frames still to hand out
RECURSIVE slice_loop(_, _, _, _, _, _)
slice_loop(input, size, i, pos, remain, result) ==
    IF i > size THEN result
    ELSE LET slice_size == Len(input) \div size
             take == slice_size + (IF remain # 0 THEN 1 ELSE 0)
         IN  slice_loop(input, size, i + 1, pos + take,
                        IF remain # 0 THEN remain - 1 ELSE remain,
                        Append(result, SubSeq(input, pos, pos + take - 1)))

\* a plausible slip: the remainder is handed out at the back, all to the last chunk
slice_list_remainder_last(input, size) ==
    LET slice_size == Len(input) \div size
    IN  [i \in 1..size |->
            IF i < size
            THEN SubSeq(input, (i - 1) * slice_size + 1, i * slice_size)
            ELSE SubSeq(input, (i - 1) * slice_size + 1, Len(input))]

\* slice_list(input, size), size >= 1 (size = 0 raises ZeroDivisionError: see Run)
slice_list(input, size) ==
    slice_loop(input, size, 1, 1, Len(input) % size, <<>>)

\* {host: frames for host, frames in zip(hosts, frame_slices)}: a dict, so a
\* host listed more than once keeps the slice of its last occurrence
dict_of_zip(hosts, frame_slices) ==
    [h \in {hosts[k] : k \in 1..Len(hosts)} |->
        LET last == CHOOSE k \in 1..Len(hosts) :
                        /\ hosts[k] = h
                        /\ \A m \in (k + 1)..Len(hosts) : hosts[m] # h
        IN  frame_slices[last]]

split_frames_per_host(frames, hosts) ==
    dict_of_zip(hosts, slice_list(frames, Len(hosts)))

\* `frames=None` of build_blender, among sequences of frame numbers
NoFrames == <<-1>>

\* build_frames: '-f ' + ','.join(...) when frames is not None, '' otherwise;
\* the flag is kept with the list of the frame numbers it names
build_frames(frames) ==
    IF frames # NoFrames THEN [frames |-> <<"-f", frames>>]
    ELSE [frames |-> <<>>]

\* build_output: '-o <path>/####.png'
build_output(path) ==
    [output |-> <<"-o", <<path, "####.png">> >>]

\* build_blender: 'blender -b {blend_file} {output} {frames}'
build_blender(blend_file, output, frames) ==
    <<"blender", "-b", blend_file>> \o build_output(output).output
        \o build_frames(frames).frames

\* 'ssh {host} "{blend_cmd}"' of remote_blender
ssh_wrap(host, blend_cmd) == <<"ssh", host, blend_cmd>>

\* the regex of get_file_mod_date applied to stat's output: the match is the
\* text "Modify: <date> <time>" cut at the seconds (kept as "<date> <time>");
\* None stands for no match, on which `regex.search(std_out)[0]` raises TypeError
get_file_mod_date(std_out) ==
    IF std_out.modify = None THEN None ELSE std_out.modify

\* ------------------------------------------------------------------- state

VARIABLES
    args,             \* the parsed command line handed to BlenderRender._run
    pc,               \* where _run is
    error,            \* the exception _run ended with, or None
    frames,           \* _run's `frames`
    frame_slices,     \* split_frames_per_host's `frame_slices`
    frames_per_host,  \* _run's `frames_per_host`
    i,                \* index of the host / handle the current loop is at
    processes,        \* _run's `processes`: the handles of the render processes
    remote_date,      \* remote_blender: get_file_mod_date(blend_file, host=host)
    local_date,       \* remote_blender: get_file_mod_date(blend_file)
    cmds,             \* the helper commands (stat, scp, ssh rm) issued so far
    local_out,        \* frames in the local output directory
    remote_out        \* frames in each remote host's output directory

vars == <<args, pc, error, frames, frame_slices, frames_per_host, i, processes,
          remote_date, local_date, cmds, local_out, remote_out>>

RemoteHosts == Hosts \ {"localhost"}

ArgsOver(hostLists, numFrames, starts, ends, jumps) ==
    [distribute : hostLists, num_frames : numFrames, start_frame : starts,
     end_frame : ends, jump : jumps, blend_file : {BlendFile}, output : {OutputDir}]

InitWith(argSet) ==
    /\ args \in argSet
    /\ pc = "start"
    /\ error = None
    /\ frames = <<>>
    /\ frame_slices = <<>>
    /\ frames_per_host = <<>>
    /\ i = 0
    /\ processes = <<>>
    /\ remote_date = None
    /\ local_date = None
    /\ cmds = <<>>
    /\ local_out = {}
    /\ remote_out = [h \in RemoteHosts |-> {}]

\* end_frame = 0 stands for the falsy values of `if args.end_frame:` (None, 0).
\* the dispatcher: every host list up to MaxRunHosts, frames 1..num_frames
Init ==
    InitWith(ArgsOver(SeqsUpTo(Hosts, MaxRunHosts), 0..MaxRunFrames, {1}, {0}, {1}))

\* the dispatcher as the command line starts it: `-d` is nargs='+' with the
\* default ['localhost'] (lines 347-348), so there is at least one host
FairInit ==
    InitWith(ArgsOver(SeqsUpTo(Hosts, MaxRunHosts) \ {<<>>}, 0..MaxRunFrames,
                      {1}, {0}, {1}))

\* the partitioner: longer host lists and ranges, with start, end and stride
SplitInit ==
    InitWith(ArgsOver(SeqsUpTo(Hosts, MaxHosts), 0..MaxFrames, 1..2,
                      0..MaxFrames, 1..MaxJump))

\* ------------------------------------------------- the dispatcher: _run

Min(a, b) == IF a < b THEN a ELSE b

host_at(k) == args.distribute[k]
NumHosts == Len(args.distribute)

\* a helper command as issued through Popen: op is what it does, host the
\* machine it talks to, pos the position in args.distribute it is issued for
Helper(op, host, pos) == [op |-> op, host |-> host, pos |-> pos, status |-> "running"]

LastCmd == cmds[Len(cmds)]

\* the helper the dispatcher is blocked on ends with `status`
EndLast(status) == [cmds EXCEPT ![Len(cmds)].status = status]

\* lines 356-362: the frame range and its split over the hosts.  With no host,
\* slice_list divides by zero.
Run ==
    /\ pc = "start"
    /\ LET end_frame == IF args.end_frame # 0
                        THEN Min(args.num_frames, args.end_frame)
                        ELSE args.num_frames
           fr == range(args.start_frame, end_frame + 1, args.jump)
       IN  /\ frames' = fr
           /\ IF NumHosts = 0
              THEN /\ error' = "ZeroDivisionError"
                   /\ pc' = "aborted"
                   /\ UNCHANGED <<frame_slices, frames_per_host, i>>
              ELSE /\ frame_slices' = slice_list(fr, NumHosts)
                   /\ frames_per_host' = split_frames_per_host(fr, args.distribute)
                   /\ pc' = "launch"
                   /\ i' = 1
                   /\ UNCHANGED error
    /\ UNCHANGED <<args, processes, remote_date, local_date, cmds, local_out, remote_out>>

\* the end of one pass of `for host in args.distribute` (lines 365-376): the
\* next host, or on to `for p in processes: p.wait()`
NextLaunch ==
    IF i < NumHosts THEN pc' = "launch" /\ i' = i + 1
    ELSE pc' = "wait" /\ i' = 1

\* the handle Popen returns for the render command of host_at(i)
Handle(cmd) ==
    [host |-> host_at(i), frames |-> frames_per_host[host_at(i)], cmd |-> cmd,
     status |-> "running"]

\* a plausible slip: the local render is waited on as soon as it is launched
LaunchLocal_blocking ==
    /\ pc = "launch"
    /\ host_at(i) = "localhost"
    /\ processes' = Append(processes,
           Handle(build_blender(args.blend_file, args.output,
                                frames_per_host[host_at(i)])))
    /\ pc' = "wait"
    /\ i' = i
    /\ UNCHANGED <<args, error, frames, frame_slices, frames_per_host,
                   remote_date, local_date, cmds, local_out, remote_out>>

\* lines 367-370, 376: blender(...) for 'localhost'
LaunchLocal ==
    /\ pc = "launch"
    /\ host_at(i) = "localhost"
    /\ processes' = Append(processes,
           Handle(build_blender(args.blend_file, args.output,
                                frames_per_host[host_at(i)])))
    /\ NextLaunch
    /\ UNCHANGED <<args, error, frames, frame_slices, frames_per_host,
                   remote_date, local_date, cmds, local_out, remote_out>>

\* lines 371-372, 303, 290-294: remote_blender asks the host for the file's
\* modification date and blocks in communicate()
RemoteStat ==
    /\ pc = "launch"
    /\ host_at(i) # "localhost"
    /\ cmds' = Append(cmds, Helper("stat", host_at(i), i))
    /\ pc' = "stat_remote"
    /\ UNCHANGED <<args, error, frames, frame_slices, frames_per_host, i, processes,
                   remote_date, local_date, local_out, remote_out>>

\* lines 294-297, 303: the remote stat has exited; no match raises, a match
\* is kept and the local file is asked next
RemoteStatDone ==
    /\ pc = "stat_remote"
    /\ LastCmd.status = "running"
    /\ \E std_out \in StatOutputs :
          LET match == get_file_mod_date(std_out)
          IN  IF match = None
              THEN /\ error' = "TypeError"
                   /\ pc' = "aborted"
                   /\ cmds' = EndLast("exited")
                   /\ UNCHANGED remote_date
              ELSE /\ remote_date' = match
                   /\ cmds' = Append(EndLast("exited"), Helper("stat", "localhost", i))
                   /\ pc' = "stat_local"
                   /\ UNCHANGED error
    /\ UNCHANGED <<args, frames, frame_slices, frames_per_host, i, processes,
                   local_date, local_out, remote_out>>

\* a plausible slip: the file is copied whatever the two dates are
SyncGuard_always(local) ==
    /\ cmds' = Append(EndLast("exited"), Helper("copy_to", host_at(i), i))
    /\ pc' = "copy_to"

\* the comparison of line 303, and copy_to_host (lines 276-277, 304) when the
\* two dates differ
SyncGuard(local) ==
    IF remote_date # local
    THEN /\ cmds' = Append(EndLast("exited"), Helper("copy_to", host_at(i), i))
         /\ pc' = "copy_to"
    ELSE /\ cmds' = EndLast("exited")
         /\ pc' = "popen_remote"

\* lines 294-297, 303-304: the local stat has exited
LocalStatDone ==
    /\ pc = "stat_local"
    /\ LastCmd.status = "running"
    /\ \E std_out \in StatOutputs :
          LET match == get_file_mod_date(std_out)
          IN  IF match = None
              THEN /\ error' = "TypeError"
                   /\ pc' = "aborted"
                   /\ cmds' = EndLast("exited")
                   /\ UNCHANGED local_date
              ELSE /\ local_date' = match
                   /\ SyncGuard(match)
                   /\ UNCHANGED error
    /\ UNCHANGED <<args, frames, frame_slices, frames_per_host, i, processes,
                   remote_date, local_out, remote_out>>

\* lines 247-249: shell() returns when scp -p has exited, whatever its status
CopyToDone ==
    /\ pc = "copy_to"
    /\ LastCmd.status = "running"
    /\ cmds' = EndLast("exited")
    /\ pc' = "popen_remote"
    /\ UNCHANGED <<args, error, frames, frame_slices, frames_per_host, i, processes,
                   remote_date, local_date, local_out, remote_out>>

\* lines 305-307, 376: the render command wrapped in ssh
RemotePopen ==
    /\ pc = "popen_remote"
    /\ processes' = Append(processes,
           Handle(ssh_wrap(host_at(i),
                           build_blender(args.blend_file, args.output,
                                         frames_per_host[host_at(i)]))))
    /\ remote_date' = None
    /\ local_date' = None
    /\ NextLaunch
    /\ UNCHANGED <<args, error, frames, frame_slices, frames_per_host, cmds,
                   local_out, remote_out>>

Exited(p) == p.status \in Outcomes

\* a plausible slip: the retrieval loop is left after its first pass
NextRetrieve_return == pc' = "done" /\ i' = i

\* the end of one pass of the retrieval loop (lines 379-382)
NextRetrieve ==
    IF i < NumHosts THEN pc' = "retrieve" /\ i' = i + 1
    ELSE pc' = "done" /\ i' = i

\* a plausible slip: the handles are polled, not waited on
Wait_nonblocking ==
    /\ pc = "wait"
    /\ IF i < Len(processes) THEN pc' = "wait" /\ i' = i + 1
       ELSE pc' = "retrieve" /\ i' = 1
    /\ UNCHANGED <<args, error, frames, frame_slices, frames_per_host, processes,
                   remote_date, local_date, cmds, local_out, remote_out>>

\* lines 377-378: p.wait() returns once the process has exited
Wait ==
    /\ pc = "wait"
    /\ Exited(processes[i])
    /\ IF i < Len(processes) THEN pc' = "wait" /\ i' = i + 1
       ELSE pc' = "retrieve" /\ i' = 1
    /\ UNCHANGED <<args, error, frames, frame_slices, frames_per_host, processes,
                   remote_date, local_date, cmds, local_out, remote_out>>

\* lines 379-380: nothing to fetch from 'localhost'
RetrieveSkip ==
    /\ pc = "retrieve"
    /\ host_at(i) = "localhost"
    /\ NextRetrieve
    /\ UNCHANGED <<args, error, frames, frame_slices, frames_per_host, processes,
                   remote_date, local_date, cmds, local_out, remote_out>>

\* lines 279-280, 381: copy_results_from_host starts scp -r and blocks
RetrieveCopy ==
    /\ pc = "retrieve"
    /\ host_at(i) # "localhost"
    /\ cmds' = Append(cmds, Helper("copy_from", host_at(i), i))
    /\ pc' = "copy_from"
    /\ UNCHANGED <<args, error, frames, frame_slices, frames_per_host, i, processes,
                   remote_date, local_date, local_out, remote_out>>

\* a plausible change: cleanup is gated on the copy having succeeded
CopyFromDone_gated ==
    /\ pc = "copy_from"
    /\ LastCmd.status = "running"
    /\ \E how \in Outcomes :
          IF how = "ok"
          THEN /\ local_out' = local_out \cup remote_out[host_at(i)]
               /\ cmds' = Append(EndLast(how), Helper("rm", host_at(i), i))
               /\ pc' = "cleanup"
               /\ i' = i
          ELSE /\ local_out' = local_out
               /\ cmds' = EndLast(how)
               /\ NextRetrieve
    /\ UNCHANGED <<args, error, frames, frame_slices, frames_per_host, processes,
                   remote_date, local_date, remote_out>>

\* lines 247-249, 282-284, 382: scp -r has exited; shell() drops its status and
\* cleanup_host starts ssh rm -r
CopyFromDone ==
    /\ pc = "copy_from"
    /\ LastCmd.status = "running"
    /\ \E how \in Outcomes :
          /\ local_out' = IF how = "ok" THEN local_out \cup remote_out[host_at(i)]
                          ELSE local_out
          /\ cmds' = Append(EndLast(how), Helper("rm", host_at(i), i))
    /\ pc' = "cleanup"
    /\ UNCHANGED <<args, error, frames, frame_slices, frames_per_host, i, processes,
                   remote_date, local_date, remote_out>>

\* lines 247-249, 379: ssh rm -r has exited; on to the next host
CleanupDone ==
    /\ pc = "cleanup"
    /\ LastCmd.status = "running"
    /\ \E how \in Outcomes :
          /\ remote_out' = IF how = "ok"
                           THEN [remote_out EXCEPT ![host_at(i)] = {}]
                           ELSE remote_out
          /\ cmds' = EndLast(how)
    /\ NextRetrieve
    /\ UNCHANGED <<args, error, frames, frame_slices, frames_per_host, processes,
                   remote_date, local_date, local_out>>

\* ------------------------------------------------ the external processes

FramesOf(p) == {p.frames[k] : k \in 1..Len(p.frames)}

\* a render process exits: with status 0 its frames are in the output
\* directory of its host, otherwise nothing is
ProcExit(j) ==
    /\ processes[j].status = "running"
    /\ \E how \in Outcomes :
          /\ processes' = [processes EXCEPT ![j].status = how]
          /\ IF how = "ok" /\ processes[j].host = "localhost"
             THEN local_out' = local_out \cup FramesOf(processes[j])
             ELSE UNCHANGED local_out
          /\ IF how = "ok" /\ processes[j].host # "localhost"
             THEN remote_out' = [remote_out EXCEPT ![processes[j].host] =
                                    @ \cup FramesOf(processes[j])]
             ELSE UNCHANGED remote_out
    /\ UNCHANGED <<args, pc, error, frames, frame_slices, frames_per_host, i,
                   remote_date, local_date, cmds>>

\* a render process that will never exit
ProcHang(j) ==
    /\ processes[j].status = "running"
    /\ processes' = [processes EXCEPT ![j].status = "hung"]
    /\ UNCHANGED <<args, pc, error, frames, frame_slices, frames_per_host, i,
                   remote_date, local_date, cmds, local_out, remote_out>>

\* the helper the dispatcher is blocked on will never exit
HelperHang ==
    /\ pc \in {"stat_remote", "stat_local", "copy_to", "copy_from", "cleanup"}
    /\ LastCmd.status = "running"
    /\ cmds' = EndLast("hung")
    /\ UNCHANGED <<args, pc, error, frames, frame_slices, frames_per_host, i,
                   processes, remote_date, local_date, local_out, remote_out>>

Next ==
    \/ Run
    \/ LaunchLocal
    \/ RemoteStat
    \/ RemoteStatDone
    \/ LocalStatDone
    \/ CopyToDone
    \/ RemotePopen
    \/ Wait
    \/ RetrieveSkip
    \/ RetrieveCopy
    \/ CopyFromDone
    \/ CleanupDone
    \/ \E j \in 1..Len(processes) : ProcExit(j)
    \/ \E j \in 1..Len(processes) : ProcHang(j)
    \/ HelperHang

Spec == Init /\ [][Next]_vars

\* the dispatcher runs on; a process that does not hang exits
FairSpec == FairInit /\ [][Next]_vars /\ WF_vars(Next)

SplitNext == Run

SplitSpec == SplitInit /\ [][SplitNext]_vars

\* ------------------------------------------------------------ the claims

\* the launch loop has run to its end
PastLaunch == pc \in {"wait", "retrieve", "copy_from", "cleanup", "done"}

\* frames_per_host[host] for the hosts in the order listed, one after another
RECURSIVE AssignedUpTo(_)
AssignedUpTo(k) ==
    IF k = 0 THEN <<>> ELSE AssignedUpTo(k - 1) \o frames_per_host[host_at(k)]

\* C1: partition completeness of split_frames_per_host: the sub-sequences
\* assigned to the hosts, in the order the hosts are listed, concatenate to the
\* frame range: every frame assigned, none twice, order kept.
C1_PartitionComplete ==
    (pc = "launch") => AssignedUpTo(NumHosts) = frames

\* size and offset of chunk k when N frames go to K hosts, remainder up front
ChunkSize(N, K, k) == (N \div K) + (IF k <= N % K THEN 1 ELSE 0)
ChunkStart(N, K, k) == (k - 1) * (N \div K) + Min(k - 1, N % K)

\* C2: partition balance of slice_list: exactly K contiguous chunks, the first
\* N mod K of size N div K + 1 and the others of size N div K, so sizes differ
\* by at most 1 and with N < K the trailing K - N chunks are empty.
C2_PartitionBalance ==
    (pc = "launch") =>
        LET N == Len(frames)
            K == NumHosts
        IN  /\ Len(frame_slices) = K
            /\ \A k \in 1..K :
                  /\ Len(frame_slices[k]) = ChunkSize(N, K, k)
                  /\ frame_slices[k] =
                        SubSeq(frames, ChunkStart(N, K, k) + 1,
                               ChunkStart(N, K, k) + ChunkSize(N, K, k))
            /\ \A k, m \in 1..K :
                  Len(frame_slices[k]) - Len(frame_slices[m]) \in {-1, 0, 1}
            /\ N < K => \A k \in (N + 1)..K : frame_slices[k] = <<>>

\* frames 1..7 over three hosts have been split into [1,2,3], [4,5], [6,7]
C2_Witness ==
    /\ pc = "launch"
    /\ frames = <<1, 2, 3, 4, 5, 6, 7>>
    /\ NumHosts = 3
    /\ frame_slices = << <<1, 2, 3>>, <<4, 5>>, <<6, 7>> >>

\* the render command _run hands to Popen for `host`
RenderCmd(host) ==
    LET blend_cmd == build_blender(args.blend_file, args.output, frames_per_host[host])
    IN  IF host = "localhost" THEN blend_cmd ELSE ssh_wrap(host, blend_cmd)

HandlesOf(host) == {j \in 1..Len(processes) : processes[j].host = host}

\* C3: after the launch loop every host of the assignment, also one with no
\* frames, has exactly one render process, carrying that host's frames, local
\* for 'localhost' and wrapped in ssh otherwise; there are as many handles as
\* hosts in the assignment.
C3_OneProcessPerHost ==
    PastLaunch =>
        /\ Len(processes) = Cardinality(DOMAIN frames_per_host)
        /\ \A h \in DOMAIN frames_per_host :
              /\ Cardinality(HandlesOf(h)) = 1
              /\ \A j \in HandlesOf(h) :
                    /\ processes[j].frames = frames_per_host[h]
                    /\ processes[j].cmd = RenderCmd(h)

\* the dispatcher is blocked on a helper process (stat, scp, ssh rm)
BlockedOnHelper ==
    pc \in {"stat_remote", "stat_local", "copy_to", "copy_from", "cleanup"}

\* the dispatcher is blocked on an external process
Blocked == pc = "wait" \/ BlockedOnHelper

BetweenLaunches == 0 < Len(processes) /\ Len(processes) < NumHosts

\* C4 as stated: launch-before-wait: between the launch of the first and of
\* the last host's render process the dispatcher blocks on no external process.
C4_NoBlockingBetweenLaunches ==
    BetweenLaunches => ~Blocked

\* C4 as amended: no render handle is waited on before every render process is
\* launched, and the handles are then waited on one at a time in host order;
\* between launches the dispatcher blocks only on the stat and scp -p helpers
\* of remote_blender.
C4_LaunchesBeforeRenderWaits ==
    /\ Len(processes) < NumHosts => pc # "wait"
    /\ pc = "wait" =>
          /\ i \in 1..Len(processes)
          /\ \A j \in 1..(i - 1) : Exited(processes[j])
    /\ (BetweenLaunches /\ Blocked) => LastCmd.op \in {"stat", "copy_to"}

\* the dispatcher waits on the second handle, having blocked on scp -p for the
\* second host while the first host's render process was already launched
C4_Witness ==
    /\ pc = "wait"
    /\ i = 2
    /\ host_at(1) = "localhost"
    /\ \E n \in 1..Len(cmds) : cmds[n].op = "copy_to" /\ cmds[n].pos = 2

\* the retrieval commands issued so far, in order
Retrieval == SelectSeq(cmds, LAMBDA c : c.op \in {"copy_from", "rm"})

\* what the retrieval loop issues for hosts k..NumHosts: for each non-local host
\* in listed order the copy, then the delete
RECURSIVE RetrievalPlan(_)
RetrievalPlan(k) ==
    IF k > NumHosts THEN <<>>
    ELSE (IF host_at(k) = "localhost" THEN <<>>
          ELSE << [op |-> "copy_from", host |-> host_at(k), pos |-> k],
                  [op |-> "rm", host |-> host_at(k), pos |-> k] >>)
         \o RetrievalPlan(k + 1)

Issued(c) == [op |-> c.op, host |-> c.host, pos |-> c.pos]

\* C5: no copy-from-host or remote delete is issued before every launched
\* render process has completed; then for each non-local host in listed order
\* the copy is issued and, only once it has finished, the delete; never for
\* 'localhost'.
C5_RetrievalAfterAllRenders ==
    LET R == Retrieval
        plan == RetrievalPlan(1)
    IN  /\ R # <<>> =>
              /\ Len(processes) = NumHosts
              /\ \A j \in 1..Len(processes) : Exited(processes[j])
        /\ Len(R) <= Len(plan)
        /\ \A n \in 1..Len(R) :
              /\ Issued(R[n]) = plan[n]
              /\ R[n].host # "localhost"
              /\ n < Len(R) => R[n].status \in Outcomes
        /\ pc = "done" => Len(R) = Len(plan)

\* two remote hosts have been fetched and cleaned up in turn after a render
\* process that failed
C5_Witness ==
    /\ pc = "done"
    /\ Len(Retrieval) = 4
    /\ host_at(1) # host_at(2)
    /\ \E j \in 1..Len(processes) : processes[j].status = "failed"

\* C6: a failed copy-from-host is still followed by the remote delete for that
\* host, and a render process that failed changes nothing in what retrieval
\* and cleanup issue.
C6_CleanupUngated ==
    /\ \A n \in 1..Len(cmds) :
          (cmds[n].op = "copy_from" /\ cmds[n].status = "failed") =>
              /\ n < Len(cmds)
              /\ cmds[n + 1].op = "rm"
              /\ cmds[n + 1].pos = cmds[n].pos
    /\ (pc = "done" /\ \E j \in 1..Len(processes) : processes[j].status = "failed") =>
          Len(Retrieval) = Len(RetrievalPlan(1))

\* frames rendered on a remote host are neither there nor in the local output
\* directory: the copy failed and the delete went through, after another
\* render process had failed
C6_Witness ==
    /\ pc = "done"
    /\ \E j \in 1..Len(processes) : processes[j].status = "failed"
    /\ \E j \in 1..Len(processes) :
          /\ processes[j].status = "ok"
          /\ processes[j].host # "localhost"
          /\ \E f \in FramesOf(processes[j]) :
                f \notin local_out /\ f \notin remote_out[processes[j].host]
    /\ \E n \in 1..(Len(cmds) - 1) :
          /\ cmds[n].op = "copy_from" /\ cmds[n].status = "failed"
          /\ cmds[n + 1].op = "rm" /\ cmds[n + 1].status = "ok"

\* C7: fail fast: when the dispatch aborts (no host, or a timestamp query whose
\* output has no 'Modify: ...' line) no render process has been spawned.
C7_FailFast ==
    error # None => processes = <<>>

\* C8: the sync guard: before the render command goes to a non-local host the
\* input file is copied there if and only if the two modification-date strings
\* differ; equal strings issue no transfer; no query and no copy for 'localhost'.
C8_SyncGuard ==
    /\ pc = "copy_to" => remote_date # local_date
    /\ pc = "popen_remote" =>
          /\ remote_date # None /\ local_date # None
          /\ (LastCmd.op = "copy_to" /\ LastCmd.pos = i) <=> (remote_date # local_date)
          /\ Len(processes) < i
    /\ \A n \in 1..Len(cmds) :
          cmds[n].op \in {"stat", "copy_to"} => host_at(cmds[n].pos) # "localhost"

\* equal dates: the render command is about to go out and nothing was copied
C8_Witness ==
    /\ pc = "popen_remote"
    /\ remote_date = local_date
    /\ LastCmd.op = "stat"

\* a render process that has frames to write and has not exited
Writing(j) ==
    processes[j].status \in {"running", "hung"} /\ processes[j].frames # <<>>

\* writers of a host's output directory: its running render processes and,
\* for the local one, a retrieval in progress
Writers(h) ==
    Cardinality({j \in HandlesOf(h) : Writing(j)})
        + (IF h = "localhost" /\ pc = "copy_from" THEN 1 ELSE 0)

\* C9: no write contention: each host's output directory has at most one
\* render process writing it, and the local one never two writers at once.
C9_NoWriteContention ==
    \A h \in Hosts : Writers(h) <= 1

SomeHung ==
    \/ \E j \in 1..Len(processes) : processes[j].status = "hung"
    \/ \E n \in 1..Len(cmds) : cmds[n].status = "hung"

RenderHung == \E j \in 1..Len(processes) : processes[j].status = "hung"

AllRetrieved ==
    \A k \in 1..NumHosts :
        host_at(k) # "localhost" =>
            /\ \E n \in 1..Len(cmds) : cmds[n].op = "copy_from" /\ cmds[n].pos = k
            /\ \E n \in 1..Len(cmds) : cmds[n].op = "rm" /\ cmds[n].pos = k

\* C10 as stated: if every spawned process exits, _run finishes having issued
\* retrieval and cleanup for every non-local host; if a launched render
\* process never exits, _run never returns and issues no retrieval or cleanup.
C10_Terminates ==
    /\ <>(SomeHung \/ (pc = "done" /\ AllRetrieved))
    /\ [](RenderHung => (pc # "done" /\ Retrieval = <<>>))

\* C10 as amended: if every spawned process exits, _run either aborts in the
\* launch phase (no host, or a timestamp query without a 'Modify: ...' line)
\* having issued no retrieval or cleanup, or finishes having issued retrieval
\* and cleanup for every non-local host; if a launched render process never
\* exits, _run never finishes and issues no retrieval or cleanup.
C10_TerminatesOrAborts ==
    /\ <>(SomeHung \/ pc = "aborted" \/ (pc = "done" /\ AllRetrieved))
    /\ [](pc = "aborted" => (error # None /\ Retrieval = <<>>))
    /\ [](RenderHung => (pc # "done" /\ Retrieval = <<>>))

\* every process has exited and _run is done, a remote host fetched and cleaned
C10_Witness ==
    /\ pc = "done"
    /\ ~SomeHung
    /\ AllRetrieved
    /\ \E k \in 1..NumHosts : host_at(k) # "localhost"

====
